---- MODULE Spec2Model ----
(***************************************************************************)
(* Model of directus-sdk-utils (src/src/index.ts): the hook registration   *)
(* wrapper defineHook (filter / action / schedule), its error helper       *)
(* logError, and the payload readers.                                      *)
(*                                                                         *)
(* JavaScript objects are functions from field names to values; an absent  *)
(* field is a name outside the DOMAIN.  The host owns one raw event object *)
(* at a time (rawMeta) and may deliver it to any number of registered      *)
(* callbacks before replacing it by a new one.                             *)
(***************************************************************************)
EXTENDS Integers, Sequences, FiniteSets, TLC

VARIABLES
    hookContext,  \* the base context given to defineHook's callback (index.ts:84)
    rawMeta,      \* the host's current raw event metadata object
    tasks,        \* one record per raw callback invocation (firing)
    log,          \* calls of logger.error (hookContext.logger, an operation's context.logger), in order
    last,         \* what the most recent firing passed to its handler
    read          \* the most recent payload-reader call and its outcome

vars == <<hookContext, rawMeta, tasks, log, last, read>>

\* ------------------------------------------------------------------ bounds

\* Firings (raw callback invocations) in one behaviour.
MaxFirings == 2

\* ------------------------------------------------------- JavaScript values

\* The value of a missing property / of `void`.
Undefined == "undefined"

\* An object without own fields: {} (also what spreading undefined yields).
EmptyObject == [f \in {} |-> Undefined]

\* obj.f
Get(obj, f) == IF f \in DOMAIN obj THEN obj[f] ELSE Undefined

\* obj.f is nullish (the left side of ??): the property is missing.
Nullish(obj, f) == f \notin DOMAIN obj

\* JavaScript truthiness of a string-valued property: '' is falsy
\* (so is a missing property).
Truthy(v) == v # "" /\ v # Undefined

\* { ...a, ...b }: b's fields overlay a's.
Spread(a, b) ==
    [f \in DOMAIN a \cup DOMAIN b |-> IF f \in DOMAIN b THEN b[f] ELSE a[f]]

\* { ...a, f: v }
SpreadField(a, f, v) ==
    [g \in DOMAIN a \cup {f} |-> IF g = f THEN v ELSE a[g]]

\* ------------------------------------------------------------------ inputs

\* Base contexts the host may supply at registration.
BaseContexts ==
    { [logger |-> "logger", database |-> "base.database",
       accountability |-> "base.accountability"],
      [logger |-> "logger", database |-> "base.database",
       accountability |-> "base.accountability", _payload |-> "base._payload"] }

\* Per-call contexts the host may supply at dispatch.
CallContexts ==
    { EmptyObject,
      [accountability |-> "call.accountability", _payload |-> "call._payload"] }

\* The event part every raw metadata carries.
EventMeta == [event |-> "items.create", collection |-> "articles", payload |-> "p1"]

\* Raw metadata the host may create: keys present or absent, key absent,
\* a non-empty string or the (falsy) empty string; one event without payload.
RawMetas ==
    LET withKeys == {EventMeta, SpreadField(EventMeta, "keys", <<"a", "b">>)}
        withKey  == withKeys \cup
                    {SpreadField(m, "key", k) : m \in withKeys, k \in {"c", ""}}
    IN  withKey \cup {[event |-> "items.create", collection |-> "articles", key |-> "c"]}

\* Payload argument of a raw filter firing.
Payloads == {"p0"}

\* What a handler does when invoked: return/throw before its first
\* suspension, or suspend and later resolve / reject / never complete;
\* `writes` says whether it first assigns a field of the context it received
\* (bounded here to handlers that then return).
Outcomes == {"return", "throw", "resolve", "reject", "never"}
Behaviours ==
    [outcome : Outcomes, writes : {FALSE}] \cup [outcome : {"return"}, writes : {TRUE}]

\* The value a filter handler produces and the errors handlers fail with.
HandlerValue == "v1"
HandlerError(outcome) == IF outcome = "throw" THEN "E1" ELSE "E2"

\* The field a writing handler assigns on the context it received.
HandlerWrite(ctx) == SpreadField(ctx, "accountability", "handler.accountability")

\* ----------------------------------------------------------- promise states

Pending == <<"pending">>
Fulfilled(v) == <<"fulfilled", v>>
Rejected(e) == <<"rejected", e>>

\* ---------------------------------------------------------------- logError

\* logError(logger, err): logger.error(err), then throw err.  `i` names the
\* firing whose wrapper called it; completion is how the enclosing async
\* function ends.
logErrorSilent(lg, i, err) ==
    [log |-> lg, completion |-> Rejected(err)]

logErrorSwallow(lg, i, err) ==
    [log |-> Append(lg, [task |-> i, err |-> err]), completion |-> Fulfilled(Undefined)]

logError(lg, i, err) ==
    [log |-> Append(lg, [task |-> i, err |-> err]), completion |-> Rejected(err)]

\* -------------------------------------------------------------- defineHook

FilterMetaWithKey(meta) ==
    SpreadField(meta, "keys",
        (IF Nullish(meta, "keys") THEN <<>> ELSE meta["keys"]) \o
        (IF Truthy(Get(meta, "key")) THEN <<meta["key"]>> ELSE <<>>))

\* filter: the metadata handed to the handler, { ...meta, keys: meta.keys ?? [] }.
FilterMeta(meta) ==
    SpreadField(meta, "keys", IF Nullish(meta, "keys") THEN <<>> ELSE meta["keys"])

\* action/run: let keys = meta.keys ?? []; if (meta.key) keys.push(meta.key).
ActionKeys(meta) ==
    LET keys == IF Nullish(meta, "keys") THEN <<>> ELSE meta["keys"]
    IN  IF Truthy(Get(meta, "key")) THEN Append(keys, meta["key"]) ELSE keys

\* action/run: the host's raw metadata object once run has executed
\* keys.push: keys is the raw array itself whenever meta.keys is present.
ActionRawAfter(meta) ==
    IF ~Nullish(meta, "keys") /\ Truthy(Get(meta, "key"))
    THEN [meta EXCEPT !["keys"] = Append(@, meta["key"])]
    ELSE meta

\* action: the metadata handed to the handler, { ...meta, keys }.
ActionMeta(meta) == SpreadField(meta, "keys", ActionKeys(meta))

HookCtxBaseWins(base, context, payload) ==
    SpreadField(Spread(context, base), "_payload", payload)

\* filter and action: { ...hookContext, ...context, _payload }.
HookCtx(base, context, payload) ==
    SpreadField(Spread(base, context), "_payload", payload)

\* schedule: handler(hookContext) receives the base context object itself.
ScheduleCtxIsBase == TRUE

\* What each raw callback hands back to the host: the promise of its async
\* function (filter, schedule), or nothing after `void run()` (action).
FilterReturn == "promise"
ActionReturnsRun == "promise"
ActionReturn == "undefined"
ScheduleDetached == "undefined"
ScheduleReturn == "promise"

\* What the host gets from the raw callback of firing t: a promise (in its
\* current state) or a plain return without a value.
HostSees(t) ==
    IF t.ret = "promise" THEN <<"promise", t.promise>> ELSE <<"value", Undefined>>

\* The value the wrapper's async function completes with once the handler
\* produced v: `return await handler(...)` against `await handler(...)`.
FilterResult(v) == v
ActionResult(v) == Undefined
ScheduleResult(v) == Undefined

\* createOperationsHandler: the returned async function hands its promise to
\* the caller and completes with `return await fn(params, context)`.
OperationReturn == "promise"
OperationResultVoid(v) == Undefined
OperationResult(v) == v

WrapperResult(kind, v) ==
    CASE kind = "filter" -> FilterResult(v)
      [] kind = "action" -> ActionResult(v)
      [] kind = "schedule" -> ScheduleResult(v)
      [] kind = "operation" -> OperationResult(v)

\* ---------------------------------------------------------- payload reader

\* Values inside payloads carry their JavaScript type.
Str(x) == <<"string", x>>
Num(n) == <<"number", n>>
Obj(o) == <<"object", o>>
TypeOf(v) == v[1]

\* zod schemas: z.string(), z.object(shape) (unknown keys stripped unless
\* .passthrough() was called on it), .partial() and z.union(options).
ZString(optional) ==
    [type |-> "string", optional |-> optional, shape |-> EmptyObject,
     unknownKeys |-> "strip"]
ZObject(shape) ==
    [type |-> "object", optional |-> FALSE, shape |-> shape, unknownKeys |-> "strip"]
ZPartial(schema) ==
    [schema EXCEPT !.shape = [k \in DOMAIN schema.shape |->
                                [schema.shape[k] EXCEPT !.optional = TRUE]]]
ZUnion(options) == [type |-> "union", options |-> options]

\* schema.passthrough(): a method of object schemas only; on any other schema
\* the property is undefined and calling it throws a TypeError.
HasPassthrough(schema) == schema.type = "object"

PassthroughNothing(schema) == schema

RECURSIVE PassthroughDeep(_)
PassthroughDeep(schema) ==
    IF schema.type = "object"
    THEN [schema EXCEPT !.unknownKeys = "passthrough",
                        !.shape = [k \in DOMAIN schema.shape |->
                                     PassthroughDeep(schema.shape[k])]]
    ELSE schema

Passthrough(schema) == [schema EXCEPT !.unknownKeys = "passthrough"]

\* A call that returned v, or threw an error of the given kind.
Returned(v) == [status |-> "returned", value |-> v]
Threw(e) == [status |-> "threw", error |-> e]

\* schema.parse(v) for string and object schemas: whether v is accepted ...
RECURSIVE Accepts(_, _)
Accepts(schema, v) ==
    IF schema.type = "string" THEN TypeOf(v) = "string"
    ELSE /\ TypeOf(v) = "object"
         /\ \A k \in DOMAIN schema.shape :
               IF k \in DOMAIN v[2]
               THEN Accepts(schema.shape[k], v[2][k])
               ELSE schema.shape[k].optional

\* ... and the value it then returns: the declared fields that are present,
\* parsed, plus the undeclared ones when unknownKeys is "passthrough".
RECURSIVE Output(_, _)
Output(schema, v) ==
    IF schema.type = "string" THEN v
    ELSE LET declared == DOMAIN schema.shape \cap DOMAIN v[2]
             extra    == IF schema.unknownKeys = "passthrough"
                         THEN DOMAIN v[2] \ DOMAIN schema.shape ELSE {}
         IN  Obj([k \in declared \cup extra |->
                    IF k \in declared THEN Output(schema.shape[k], v[2][k])
                    ELSE v[2][k]])

ParseBestEffort(schema, v) ==
    IF Accepts(schema, v) THEN Returned(Output(schema, v)) ELSE Returned(v)

Parse(schema, v) ==
    IF Accepts(schema, v) THEN Returned(Output(schema, v)) ELSE Threw("ZodError")

\* The shared body of both readers: schema.passthrough().parse(raw).
PassthroughParse(schema, raw) ==
    IF HasPassthrough(schema) THEN Parse(Passthrough(schema), raw)
    ELSE Threw("TypeError")

\* readHookPayload(context, schema)
readHookPayload(context, schema) == PassthroughParse(schema, context["_payload"])

readTriggerPayloadStrips(context, schema) ==
    IF HasPassthrough(schema)
    THEN Parse(schema, context["data"]["$trigger"]["payload"])
    ELSE Threw("TypeError")

\* readTriggerPayload(context, schema)
readTriggerPayload(context, schema) ==
    PassthroughParse(schema, context["data"]["$trigger"]["payload"])

readTriggerKeysEmpty(context) == <<>>

\* readTriggerKeys(context): $trigger.keys ?? [].
readTriggerKeys(context) ==
    LET trigger == context["data"]["$trigger"]
    IN  IF Nullish(trigger, "keys") THEN <<>> ELSE trigger["keys"]

\* Reader inputs: payload objects over a few fields, flat or with a nested
\* object under bar.
PayloadFields == {"foo", "bar", "qux"}
Scalars == {Str("bar"), Str("baz"), Num(3)}
FlatObjects == UNION {[D -> Scalars] : D \in SUBSET PayloadFields}
NestedObjects ==
    LET inner == {[baz |-> Str("baz-value")],
                  [baz |-> Str("baz-value"), qux |-> Str("qux-value")],
                  [baz |-> Num(3), qux |-> Str("qux-value")]}
    IN  {[foo |-> Str("foo-value"), bar |-> Obj(n)] : n \in inner} \cup
        {[foo |-> Str("foo-value"), bar |-> Obj(n), last |-> Str("last-value")] :
            n \in inner}
PayloadValues == {Obj(o) : o \in FlatObjects \cup NestedObjects}

\* Reader schemas: objects of string fields, their partial forms, an object
\* with a nested object (passthrough or not), and unions of two objects.
StringObject(D) == ZObject([k \in D |-> ZString(FALSE)])
FlatSchemas == {StringObject(D) : D \in SUBSET PayloadFields}
NestedSchemas ==
    LET inner == StringObject({"baz"})
    IN  {ZObject([foo |-> ZString(FALSE), bar |-> Passthrough(inner)]),
         ZObject([foo |-> ZString(FALSE), bar |-> inner])}
ObjectSchemas == FlatSchemas \cup {ZPartial(sc) : sc \in FlatSchemas} \cup NestedSchemas
UnionMembers ==
    {StringObject({"foo"}), StringObject({"bar"}), StringObject({"qux"}),
     StringObject({"foo", "bar"})}
UnionSchemas == {ZUnion(<<a, b>>) : a \in UnionMembers, b \in UnionMembers}
Schemas == ObjectSchemas \cup UnionSchemas

\* Key lists an operation's trigger may carry.
TriggerKeys == {<<>>, <<"a">>, <<"a", "b">>}

\* An operation context whose $trigger is t.
OperationContext(t) == [data |-> [f \in {"$trigger"} |-> t]]

\* A handler calls readHookPayload(context, schema) on the context of a firing
\* whose payload is raw (each behaviour follows one reader call).
ReadHookPayload(raw, schema) ==
    /\ read.fn = "none"
    /\ read' = [fn |-> "readHookPayload", raw |-> raw, schema |-> schema,
                result |-> readHookPayload(HookCtx(hookContext, EmptyObject, raw), schema)]
    /\ UNCHANGED <<hookContext, rawMeta, tasks, log, last>>

\* An operation calls readTriggerPayload(context, schema).
ReadTriggerPayload(raw, schema) ==
    /\ read.fn = "none"
    /\ read' = [fn |-> "readTriggerPayload", raw |-> raw, schema |-> schema,
                result |-> readTriggerPayload(OperationContext([payload |-> raw]), schema)]
    /\ UNCHANGED <<hookContext, rawMeta, tasks, log, last>>

\* An operation calls readTriggerKeys(context).
ReadTriggerKeys(trigger) ==
    /\ read.fn = "none"
    /\ read' = [fn |-> "readTriggerKeys", trigger |-> trigger,
                result |-> readTriggerKeys(OperationContext(trigger))]
    /\ UNCHANGED <<hookContext, rawMeta, tasks, log, last>>

\* The wrapper's catch block, catch (err) { logError(hookContext.logger, err) },
\* run for firing i whose record is t.
Catch(t, i, err) ==
    LET r == logError(log, i, err)
    IN  [task |-> [t EXCEPT !.st = "settled", !.promise = r.completion],
         log  |-> r.log]

\* The wrapper calls handler(...) for firing number Len(tasks) + 1 and runs
\* up to its first suspension: a synchronous throw is caught at once, anything
\* else leaves the async function awaiting the handler's result.
Invoke(kind, ret, outcome) ==
    LET i == Len(tasks) + 1
        t == [kind |-> kind, outcome |-> outcome, ret |-> ret, calls |-> 1,
              h |-> IF outcome \in {"return", "throw"} THEN "done" ELSE "suspended",
              st |-> "awaiting", promise |-> Pending]
    IN  IF outcome = "throw"
        THEN LET c == Catch(t, i, HandlerError(outcome))
             IN  tasks' = Append(tasks, c.task) /\ log' = c.log
        ELSE tasks' = Append(tasks, t) /\ log' = log

\* The raw event objects the host may hand to a callback: the object it
\* delivered last (again, to another or the same registration) or a new one.
Deliveries == RawMetas \cup {rawMeta}

\* The host fires a registered filter: the callback given to register.filter
\* is called with (payload, meta, context).
FireFilter(raw, payload, context, b) ==
    /\ Len(tasks) < MaxFirings
    /\ LET meta == FilterMeta(raw)
           ctx  == HookCtx(hookContext, context, payload)
       IN  last' = [kind |-> "filter", raw |-> raw, rawAfter |-> raw,
                    call |-> context, payload |-> payload, base |-> hookContext,
                    meta |-> meta, ctx |-> ctx, ctxIsBase |-> FALSE,
                    wrote |-> b.writes]
    /\ rawMeta' = raw
    /\ Invoke("filter", FilterReturn, b.outcome)
    /\ UNCHANGED <<hookContext, read>>

\* The host fires a registered action: the callback given to register.action
\* is called with (meta, context); it starts run() and returns.
FireAction(raw, context, b) ==
    /\ Len(tasks) < MaxFirings
    /\ LET meta == ActionMeta(raw)
           ctx  == HookCtx(hookContext, context, Get(raw, "payload"))
       IN  last' = [kind |-> "action", raw |-> raw,
                    rawAfter |-> ActionRawAfter(raw),
                    call |-> context, payload |-> Get(raw, "payload"),
                    base |-> hookContext, meta |-> meta, ctx |-> ctx,
                    ctxIsBase |-> FALSE, wrote |-> b.writes]
    /\ rawMeta' = ActionRawAfter(raw)
    /\ Invoke("action", ActionReturn, b.outcome)
    /\ UNCHANGED <<hookContext, read>>

\* The host's scheduler fires a registered job: the callback given to
\* register.schedule is called without arguments.
FireSchedule(b) ==
    /\ Len(tasks) < MaxFirings
    /\ last' = [kind |-> "schedule", raw |-> EmptyObject, rawAfter |-> EmptyObject,
                call |-> EmptyObject, payload |-> Undefined, base |-> hookContext,
                meta |-> EmptyObject, ctx |-> hookContext,
                ctxIsBase |-> ScheduleCtxIsBase, wrote |-> b.writes]
    /\ hookContext' = IF b.writes /\ ScheduleCtxIsBase
                      THEN HandlerWrite(hookContext) ELSE hookContext
    /\ Invoke("schedule", ScheduleReturn, b.outcome)
    /\ UNCHANGED <<rawMeta, read>>

\* Options an operation may be run with, and the contexts it may be given;
\* an operation context carries the host's logger.
OperationParams == {EmptyObject, [collection |-> "articles"]}
OperationContexts ==
    {SpreadField(OperationContext(t), "logger", "logger") :
        t \in {[payload |-> Obj(EmptyObject)],
               [payload |-> Obj(EmptyObject), keys |-> <<"a">>]}}

\* The host runs an operation: the function createOperationsHandler(fn)
\* returned is called with (params, context) and calls fn(params, context);
\* its catch block logs to context.logger.
FireOperation(params, context, b) ==
    /\ Len(tasks) < MaxFirings
    /\ last' = [kind |-> "operation", raw |-> params, rawAfter |-> params,
                call |-> context, payload |-> Undefined, base |-> hookContext,
                meta |-> params, ctx |-> context, ctxIsBase |-> FALSE,
                wrote |-> b.writes]
    /\ Invoke("operation", OperationReturn, b.outcome)
    /\ UNCHANGED <<hookContext, rawMeta, read>>

\* The handler of firing i completes (its promise settles, or the microtask
\* after its plain return runs) and the wrapper's async function resumes.
Settle(i) ==
    /\ i \in 1..Len(tasks)
    /\ tasks[i].st = "awaiting"
    /\ tasks[i].outcome \in {"return", "resolve", "reject"}
    /\ LET t == [tasks[i] EXCEPT !.h = "done"]
       IN  IF t.outcome = "reject"
           THEN LET c == Catch(t, i, HandlerError(t.outcome))
                IN  tasks' = [tasks EXCEPT ![i] = c.task] /\ log' = c.log
           ELSE /\ tasks' = [tasks EXCEPT ![i] =
                       [t EXCEPT !.st = "settled",
                                 !.promise = Fulfilled(WrapperResult(t.kind, HandlerValue))]]
                /\ log' = log
    /\ UNCHANGED <<hookContext, rawMeta, last, read>>

NoFiring ==
    [kind |-> "none", raw |-> EmptyObject, rawAfter |-> EmptyObject,
     call |-> EmptyObject, payload |-> Undefined, base |-> EmptyObject,
     meta |-> EmptyObject, ctx |-> EmptyObject, ctxIsBase |-> FALSE, wrote |-> FALSE]

NoRead == [fn |-> "none"]

Init ==
    /\ hookContext \in BaseContexts
    /\ rawMeta \in RawMetas
    /\ tasks = <<>>
    /\ log = <<>>
    /\ last = NoFiring
    /\ read = NoRead

Next ==
    \/ \E m \in Deliveries, p \in Payloads, c \in CallContexts, b \in Behaviours :
           FireFilter(m, p, c, b)
    \/ \E m \in Deliveries, c \in CallContexts, b \in Behaviours : FireAction(m, c, b)
    \/ \E b \in Behaviours : FireSchedule(b)
    \/ \E i \in 1..MaxFirings : Settle(i)

Spec == Init /\ [][Next]_vars

\* The readers on their own: calls of the three accessors on bounded inputs.
ReaderInit == Init /\ rawMeta = EventMeta /\ "_payload" \notin DOMAIN hookContext

ReaderNext ==
    \/ \E v \in PayloadValues, sc \in Schemas : ReadHookPayload(v, sc)
    \/ \E v \in PayloadValues, sc \in Schemas : ReadTriggerPayload(v, sc)
    \/ \E ks \in TriggerKeys : ReadTriggerKeys([payload |-> Obj(EmptyObject), keys |-> ks])
    \/ ReadTriggerKeys([payload |-> Obj(EmptyObject)])

ReaderSpec == ReaderInit /\ [][ReaderNext]_vars

\* Operations on their own: runs of a handler made by createOperationsHandler.
OperationNext ==
    \/ \E p \in OperationParams, c \in OperationContexts, b \in Behaviours :
           FireOperation(p, c, b)
    \/ \E i \in 1..MaxFirings : Settle(i)

OperationSpec == Init /\ [][OperationNext]_vars

\* ------------------------------------------------------------------ claims

Firings == 1..Len(tasks)
OfKind(k) == {i \in Firings : tasks[i].kind = k}

\* The handler of firing i has failed (thrown, or rejected after suspending).
Failed(i) ==
    \/ tasks[i].outcome = "throw"
    \/ tasks[i].outcome = "reject" /\ tasks[i].h = "done"

\* The log records written for firing i.
LogOf(i) == SelectSeq(log, LAMBDA r : r.task = i)

\* a.keys ?? [] followed by a.key when the property f is there at all.
KeysThenPresentKey(raw) ==
    (IF "keys" \in DOMAIN raw THEN raw["keys"] ELSE <<>>) \o
    (IF "key" \in DOMAIN raw THEN <<raw["key"]>> ELSE <<>>)

\* C1: for every raw action firing with raw metadata M, the handler's
\* metadata has keys = M.keys (or the empty sequence) followed by M.key
\* whenever M.key is present, whatever its value (a falsy one included).
C1_ActionKeysAppendPresentKey ==
    last.kind = "action" => last.meta["keys"] = KeysThenPresentKey(last.raw)

\* C2: firing an action never modifies the raw metadata object (or its keys
\* sequence) supplied by the host, so a second delivery of the same object
\* sees the original keys followed by key exactly once.
C2_ActionLeavesRawMetaUnchanged ==
    last.kind = "action" => last.rawAfter = last.raw /\ rawMeta = last.raw

\* C3: every firing invokes its handler exactly once; a failed handler is
\* logged exactly once with its error, which is then re-thrown (the async
\* wrapper rejects with it); a handler that has not failed is not logged; so
\* the log holds exactly one record per failed handler invocation.
C3_LoggedOncePerFailure ==
    /\ \A i \in Firings :
          /\ tasks[i].calls = 1
          /\ Failed(i) =>
                /\ LogOf(i) = <<[task |-> i, err |-> HandlerError(tasks[i].outcome)]>>
                /\ tasks[i].promise = Rejected(HandlerError(tasks[i].outcome))
          /\ ~Failed(i) => LogOf(i) = <<>>
    /\ Len(log) = Cardinality({i \in Firings : Failed(i)})

C3_Witness ==
    \E i, j \in Firings :
        /\ Failed(i) /\ tasks[i].st = "settled" /\ tasks[i].outcome = "reject"
        /\ tasks[j].st = "settled" /\ ~Failed(j)
        /\ Len(log) = 1

\* C4: the raw filter callback's promise mirrors the handler: fulfilled with
\* exactly the handler's value, rejected with exactly the handler's error,
\* and never fulfilled otherwise (pending until the handler completes).
C4_FilterMirrorsHandler ==
    \A i \in OfKind("filter") :
        LET t == tasks[i] IN
        /\ t.st = "settled" /\ ~Failed(i) => HostSees(t) = <<"promise", Fulfilled(HandlerValue)>>
        /\ Failed(i) => HostSees(t) = <<"promise", Rejected(HandlerError(t.outcome))>>
        /\ t.st = "awaiting" => HostSees(t) = <<"promise", Pending>>

C4_Witness ==
    \E i, j \in OfKind("filter") :
        /\ tasks[i].promise = Fulfilled(HandlerValue)
        /\ tasks[j].promise = Rejected("E2")

\* C5: the raw action callback always returns normally with no value, while
\* the handler is still suspended, has failed or never completes; a failure
\* shows only in the log and in the detached promise of run().
C5_ActionReturnsAtOnce ==
    \A i \in OfKind("action") :
        /\ HostSees(tasks[i]) = <<"value", Undefined>>
        /\ Failed(i) =>
              /\ tasks[i].promise = Rejected(HandlerError(tasks[i].outcome))
              /\ Len(LogOf(i)) = 1

C5_Witness ==
    \E i, j \in OfKind("action") :
        /\ tasks[i].h = "suspended" /\ tasks[i].outcome = "never"
        /\ tasks[j].outcome = "throw" /\ tasks[j].ret = "undefined"

C7_FilterMetaKeys ==
    last.kind = "filter" =>
        /\ DOMAIN last.meta = DOMAIN last.raw \cup {"keys"}
        /\ \A f \in DOMAIN last.raw \ {"keys"} : last.meta[f] = last.raw[f]
        /\ last.meta["keys"] =
              IF "keys" \in DOMAIN last.raw THEN last.raw["keys"] ELSE <<>>

C7_Witness ==
    /\ last.kind = "filter"
    /\ "keys" \notin DOMAIN last.raw
    /\ Get(last.raw, "key") = "c"
    /\ last.meta["keys"] = <<>>

\* C8: the handler's context is base overlaid by the per-call context
\* overlaid by _payload = the event's raw data.
C8_ContextOverlay ==
    last.kind \in {"filter", "action"} =>
        /\ DOMAIN last.ctx = DOMAIN last.base \cup DOMAIN last.call \cup {"_payload"}
        /\ \A f \in DOMAIN last.ctx \ {"_payload"} :
              last.ctx[f] = IF f \in DOMAIN last.call THEN last.call[f] ELSE last.base[f]
        /\ last.ctx["_payload"] =
              IF last.kind = "filter" THEN last.payload ELSE Get(last.raw, "payload")

C8_Witness ==
    /\ last.kind = "action"
    /\ "_payload" \in DOMAIN last.base /\ "_payload" \in DOMAIN last.call
    /\ last.ctx["accountability"] = "call.accountability"
    /\ last.ctx["database"] = "base.database"
    /\ last.ctx["_payload"] = "p1"

\* The alternatives of a union that accept v, by position.
Accepting(schema, v) ==
    {i \in 1..Len(schema.options) : Accepts(schema.options[i], v)}

FirstAccepting(schema, v) ==
    CHOOSE i \in Accepting(schema, v) : \A j \in Accepting(schema, v) : i <= j

\* C10: for a union of object schemas readHookPayload returns what the first
\* accepting alternative returns, undeclared fields preserved, and fails
\* only when every alternative rejects the value.
C10_UnionFirstMatch ==
    (read.fn = "readHookPayload" /\ read.schema.type = "union") =>
        IF Accepting(read.schema, read.raw) = {}
        THEN read.result.status = "threw"
        ELSE read.result =
               Parse(Passthrough(read.schema.options[FirstAccepting(read.schema, read.raw)]),
                     read.raw)

\* A reader call on an object schema that accepts, resp. rejects, the value.
ReadAccepted(fns) ==
    /\ read.fn \in fns
    /\ read.schema.type = "object"
    /\ Accepts(read.schema, read.raw)

ReadRejected(fns) ==
    /\ read.fn \in fns
    /\ read.schema.type = "object"
    /\ ~Accepts(read.schema, read.raw)

\* The fields of the object value v.
FieldsOf(v) == DOMAIN v[2]

\* C11: for an object schema S and a value V that S accepts, readHookPayload
\* returns exactly the fields of V: a declared string field with its value,
\* a declared object field with what its sub-schema returns, an undeclared
\* field unchanged; none is dropped, none invented (partial schemas whose
\* declared fields are all absent included).
C11_ObjectPassthrough ==
    ReadAccepted({"readHookPayload"}) =>
        /\ read.result.status = "returned"
        /\ TypeOf(read.result.value) = "object"
        /\ FieldsOf(read.result.value) = FieldsOf(read.raw)
        /\ \A k \in FieldsOf(read.raw) :
              \/ k \notin DOMAIN read.schema.shape
                    /\ read.result.value[2][k] = read.raw[2][k]
              \/ k \in DOMAIN read.schema.shape
                    /\ read.schema.shape[k].type = "string"
                    /\ read.result.value[2][k] = read.raw[2][k]
              \/ k \in DOMAIN read.schema.shape
                    /\ read.schema.shape[k].type = "object"
                    /\ TypeOf(read.result.value[2][k]) = "object"
                    /\ \A f \in DOMAIN read.schema.shape[k].shape :
                          f \in FieldsOf(read.raw[2][k]) =>
                             read.result.value[2][k][2][f] = read.raw[2][k][2][f]

C11_Witness ==
    /\ read.fn = "readHookPayload"
    /\ read.schema = ZPartial(StringObject({"foo"}))
    /\ read.raw = Obj([bar |-> Str("baz")])
    /\ read.result = Returned(Obj([bar |-> Str("baz")]))

\* C12: for an object schema S and a value V that S rejects, readHookPayload
\* and readTriggerPayload throw the validator's error and return no value.
C12_RejectedThrows ==
    ReadRejected({"readHookPayload", "readTriggerPayload"}) =>
        /\ read.result = Threw("ZodError")
        /\ "value" \notin DOMAIN read.result

C12_Witness ==
    /\ read.fn = "readHookPayload"
    /\ read.schema = StringObject({"foo"})
    /\ read.raw = Obj([foo |-> Num(3)])
    /\ read.result.status = "threw"

\* C13: in an accepted value, the fields extra to a nested sub-schema are
\* kept inside the nested object exactly when that sub-schema was configured
\* for passthrough, and the fields extra to the top-level schema are kept at
\* the top level.
C13_NestedPassthrough ==
    ReadAccepted({"readHookPayload"}) =>
        /\ FieldsOf(read.raw) \ DOMAIN read.schema.shape \subseteq FieldsOf(read.result.value)
        /\ \A k \in DOMAIN read.schema.shape \cap FieldsOf(read.raw) :
              read.schema.shape[k].type = "object" =>
                LET sub   == read.schema.shape[k]
                    extra == FieldsOf(read.raw[2][k]) \ DOMAIN sub.shape
                    out   == read.result.value[2][k]
                IN  IF sub.unknownKeys = "passthrough"
                    THEN /\ extra \subseteq FieldsOf(out)
                         /\ \A f \in extra : out[2][f] = read.raw[2][k][2][f]
                    ELSE extra \cap FieldsOf(out) = {}

C13_Witness ==
    /\ read.fn = "readHookPayload"
    /\ read.schema \in NestedSchemas
    /\ read.schema.shape["bar"].unknownKeys = "passthrough"
    /\ read.raw = Obj([foo |-> Str("foo-value"), last |-> Str("last-value"),
                       bar |-> Obj([baz |-> Str("baz-value"), qux |-> Str("qux-value")])])
    /\ read.result = Returned(read.raw)

C13_WitnessStripped ==
    /\ read.fn = "readHookPayload"
    /\ read.schema \in NestedSchemas
    /\ read.schema.shape["bar"].unknownKeys = "strip"
    /\ read.result.status = "returned"
    /\ "qux" \in FieldsOf(read.raw[2]["bar"])
    /\ FieldsOf(read.result.value[2]["bar"]) = {"baz"}

\* C14: readTriggerPayload on an operation context whose $trigger.payload is
\* V has the outcome of readHookPayload on a hook context whose _payload is
\* V: the same value, or a failure in the same cases.
C14_TriggerReaderLikeHookReader ==
    read.fn = "readTriggerPayload" =>
        read.result = readHookPayload([_payload |-> read.raw], read.schema)

C14_Witness ==
    /\ read.fn = "readTriggerPayload"
    /\ read.schema = StringObject({"foo"})
    /\ read.raw = Obj([foo |-> Str("bar"), bar |-> Str("baz")])
    /\ read.result = Returned(read.raw)

\* C16: readTriggerKeys returns $trigger.keys unchanged when present and the
\* empty sequence when it is absent; it never fails on a missing key list.
C16_TriggerKeysDefault ==
    read.fn = "readTriggerKeys" =>
        read.result = IF "keys" \in DOMAIN read.trigger
                      THEN read.trigger["keys"] ELSE <<>>

C16_Witness ==
    /\ read.fn = "readTriggerKeys"
    /\ "keys" \in DOMAIN read.trigger
    /\ read.result = <<"a", "b">>

C16_WitnessAbsent ==
    /\ read.fn = "readTriggerKeys"
    /\ "keys" \notin DOMAIN read.trigger
    /\ read.result = <<>>

\* C17: the handler made by createOperationsHandler(fn) calls fn once with
\* the params and context it was given; its promise is fulfilled with fn's
\* value and nothing is logged, or fn's error is logged once to the context's
\* logger and the promise rejects with that error; it is never fulfilled
\* with undefined in place of either.
C17_OperationOutcomePreserved ==
    /\ last.kind = "operation" => last.meta = last.raw /\ last.ctx = last.call
    /\ \A i \in OfKind("operation") :
          LET t == tasks[i] IN
          /\ t.calls = 1
          /\ t.st = "settled" /\ ~Failed(i) =>
                /\ HostSees(t) = <<"promise", Fulfilled(HandlerValue)>>
                /\ LogOf(i) = <<>>
          /\ Failed(i) =>
                /\ HostSees(t) = <<"promise", Rejected(HandlerError(t.outcome))>>
                /\ LogOf(i) = <<[task |-> i, err |-> HandlerError(t.outcome)]>>
          /\ t.st = "awaiting" => HostSees(t) = <<"promise", Pending>> /\ LogOf(i) = <<>>

C17_Witness ==
    \E i, j \in OfKind("operation") :
        /\ tasks[i].promise = Fulfilled(HandlerValue)
        /\ tasks[j].promise = Rejected("E2")
        /\ Len(log) = 1

\* Some earlier firing's handler is still suspended (or will never complete).
SomeSuspended == \E i \in Firings : tasks[i].h = "suspended"

\* C15: firings are independent.  While a handler is suspended a further
\* firing of any registration can start; what a firing hands its handler is
\* built from the event as the host created it and from the base context as
\* registered, whatever firings came before; and each firing's result and
\* log record follow from its own handler alone.
C15_FiringsIndependent ==
    /\ (SomeSuspended /\ Len(tasks) < MaxFirings) =>
          /\ ENABLED (\E c \in CallContexts, b \in Behaviours : FireFilter(rawMeta, "p0", c, b))
          /\ ENABLED (\E c \in CallContexts, b \in Behaviours : FireAction(rawMeta, c, b))
          /\ ENABLED (\E b \in Behaviours : FireSchedule(b))
    /\ last.kind \in {"filter", "action"} =>
          /\ last.raw \in RawMetas
          /\ last.meta["keys"] \in {<<>>, <<"a", "b">>, <<"c">>, <<"a", "b", "c">>}
    /\ last.kind \in {"filter", "action", "schedule"} => last.base \in BaseContexts
    /\ \A i \in Firings :
          /\ Failed(i) => LogOf(i) = <<[task |-> i, err |-> HandlerError(tasks[i].outcome)]>>
          /\ ~Failed(i) => LogOf(i) = <<>>
          /\ tasks[i].st = "settled" =>
                tasks[i].promise =
                   IF Failed(i) THEN Rejected(HandlerError(tasks[i].outcome))
                   ELSE Fulfilled(WrapperResult(tasks[i].kind, HandlerValue))

\* C9: no firing changes the base context, even when its handler assigns a
\* field of the context it received.
C9_BaseContextUnchanged ==
    /\ hookContext \in BaseContexts
    /\ last.kind # "none" => hookContext = last.base

====
